---- MODULE Spec2Model ----
(***************************************************************************)
(* A model of the Finance_Dashboard core: spreadsheet column addressing    *)
(* (src/app/data.py), per-column type preparation, date-column discovery   *)
(* and relative time-window filtering, and the month-over-month delta of   *)
(* a metric series (src/streamlit_app.py).                                 *)
(*                                                                         *)
(* Characters are their code points.  A cell is a record                   *)
(*   [t, form, v]   t \in {"nan","str","num","date","nat"}                 *)
(* where a text cell carries the shape of its text (form) and the number   *)
(* or the day the text denotes (v); dates are days since 1970-01-01.       *)
(***************************************************************************)
EXTENDS Integers, Sequences, FiniteSets, TLC

VARIABLES
  pc,            \* position of the run
  letter,        \* argument of column_index_from_letter / get_series_by_letter
  index_ret,     \* outcome of column_index_from_letter(letter)
  series_ret,    \* outcome of get_series_by_letter(df, letter)
  sheet,         \* the frame load_sheet returned (main, line 147)
  df,            \* main's df: the frame _prepare returned, which _apply_time_filter may write to
  time_filter,   \* the label chosen in make_filter_section
  found,         \* _apply_time_filter's date_col and the strategy that set it
  df_filtered,   \* the frame _apply_time_filter returned (main, line 164)
  ret_is_df,     \* whether df_filtered is the very object df (a return of df itself)
  date_col,      \* main's date_col, the chart axis (line 207): a column position
  series,        \* the argument of get_mom_change
  mom            \* what get_mom_change returned, and its locals

addr_vars == <<letter, index_ret, series_ret>>
table_vars == <<sheet, df, time_filter, found, df_filtered, ret_is_df, date_col>>
delta_vars == <<series, mom>>
vars == <<pc, addr_vars, table_vars, delta_vars>>

(***************************************************************************)
(* Column addressing: src/app/data.py                                      *)
(***************************************************************************)

\* Longest run of non-blank characters in an address argument.
MaxLetters == 2

UpperA == 65
UpperZ == 90
LowerA == 97
LowerZ == 122

\* str.strip() with no argument removes these (space, tab, newline among them).
Whitespace == {32, 9}

\* The characters an argument is drawn from: A..Z, some lower-case letters,
\* a blank, and the code points just outside A..Z ('@', '[') and a digit.
CoreChars == (UpperA..UpperZ) \cup {LowerA, 109, LowerZ} \cup {32} \cup {64, 91, 49}

\* Leading and trailing padding of an argument.
Paddings == {<<>>, <<32>>, <<9, 32>>}

\* The argument is some padding, up to MaxLetters characters, some padding.
LetterInput ==
  \E l \in Paddings, r \in Paddings, n \in 0..MaxLetters :
    \E c \in [1..n -> CoreChars] : letter = l \o c \o r

RECURSIVE LStrip(_)
LStrip(s) ==
  IF s # <<>> /\ Head(s) \in Whitespace THEN LStrip(Tail(s)) ELSE s

RECURSIVE RStrip(_)
RStrip(s) ==
  IF s # <<>> /\ s[Len(s)] \in Whitespace
    THEN RStrip(SubSeq(s, 1, Len(s) - 1))
    ELSE s

\* str.strip()
Strip(s) == RStrip(LStrip(s))

UpperChar(ch) == IF ch >= LowerA /\ ch <= LowerZ THEN ch - 32 ELSE ch

\* str.upper()
Upper(s) == [i \in 1..Len(s) |-> UpperChar(s[i])]

NoResult == [exc |-> "pending", value |-> 0]
Returned(v) == [exc |-> "none", value |-> v]
Raised(e) == [exc |-> e, value |-> 0]

\* The body of the for loop of column_index_from_letter, from the
\* remaining characters s and the accumulated value.
RECURSIVE LetterLoop(_, _)
LetterLoop(s, value) ==
  IF s = <<>> THEN Returned(value - 1)
  ELSE IF ~(UpperA <= Head(s) /\ Head(s) <= UpperZ) THEN Raised("ValueError")
  ELSE LetterLoop(Tail(s), value * 26 + (Head(s) - UpperA + 1))

\* A variant that forgets to upper-case its argument.
column_index_no_upper(l) == LetterLoop(Strip(l), 0)

column_index_from_letter(l) == LetterLoop(Upper(Strip(l)), 0)

\* Column counts of the frame a lookup is made in (df.shape[1]).
ColumnCounts == {1, 26, 39}

\* get_series_by_letter: the value returned is the position of the column.
get_series_by_letter(ncols, l) ==
  LET idx == column_index_from_letter(l)
  IN  IF idx.exc # "none" THEN idx
      ELSE IF idx.value < 0 \/ idx.value >= ncols THEN Raised("IndexError")
      ELSE Returned(idx.value)

AddrIdle ==
  /\ letter = <<>>
  /\ index_ret = NoResult
  /\ series_ret = [ret |-> NoResult, ncols |-> 0]

EmptyFrame == [index |-> <<>>, cols |-> <<>>]

TableIdle ==
  /\ sheet = EmptyFrame
  /\ df = EmptyFrame
  /\ time_filter = "all"
  /\ found = [col |-> 0, strategy |-> "pending"]
  /\ df_filtered = EmptyFrame
  /\ ret_is_df = FALSE
  /\ date_col = 0

InitAddr ==
  /\ pc = "addr_start"
  /\ LetterInput
  /\ index_ret = NoResult
  /\ series_ret = [ret |-> NoResult, ncols |-> 0]
  /\ TableIdle
  /\ series = <<>>
  /\ mom = [ret |-> <<<<>>, "">>, locals |-> <<>>]

CallColumnIndex ==
  /\ pc = "addr_start"
  /\ index_ret' = column_index_from_letter(letter)
  /\ pc' = "addr_indexed"
  /\ UNCHANGED <<letter, series_ret, table_vars, delta_vars>>

CallGetSeries ==
  /\ pc = "addr_start"
  /\ \E ncols \in ColumnCounts :
       series_ret' = [ret |-> get_series_by_letter(ncols, letter), ncols |-> ncols]
  /\ index_ret' = column_index_from_letter(letter)
  /\ pc' = "addr_looked_up"
  /\ UNCHANGED <<letter, table_vars, delta_vars>>

NextAddr == CallColumnIndex \/ CallGetSeries

SpecAddr == InitAddr /\ [][NextAddr]_vars

(***************************************************************************)
(* Frames: src/streamlit_app.py                                            *)
(*                                                                         *)
(* A frame is [index, cols]: the row labels and the columns in order; a    *)
(* column is [name, dtype, cells].  The shapes of text a cell may hold:    *)
(*   "word"       text that is neither a number nor a date ("abc")         *)
(*   "money"      a number with separators or a currency sign ("1,234")    *)
(*   "iso"        a date written YYYY-MM-DD                                *)
(*   "ymd_slash"  a date written YYYY/MM/DD                                *)
(***************************************************************************)

NaN == [t |-> "nan", form |-> "", v |-> 0]
NaT == [t |-> "nat", form |-> "", v |-> 0]
Str(form, v) == [t |-> "str", form |-> form, v |-> v]
Num(v) == [t |-> "num", form |-> "", v |-> v]
Date(d) == [t |-> "date", form |-> "", v |-> d]

\* pd.notna
NotNa(c) == c.t \notin {"nan", "nat"}

NotNaCount(cells) == Len(SelectSeq(cells, NotNa))

\* Series.head(n)
SeriesHead(cells, n) == SubSeq(cells, 1, IF Len(cells) < n THEN Len(cells) ELSE n)

\* pd.to_numeric(str(cell) without ",", the won sign, "$" and blanks, errors="coerce")
SafeNumberCell(c) ==
  IF c.t = "num" THEN c
  ELSE IF c.t = "str" /\ c.form = "money" THEN Num(c.v)
  ELSE NaN

\* safe_number
safe_number(cells) == [i \in 1..Len(cells) |-> SafeNumberCell(cells[i])]

\* pd.to_datetime(cell, errors="coerce"): a number is a count of nanoseconds
\* since 1970-01-01, which for the amounts of a sheet is a time on day 0.
ToDatetimeCell(c) ==
  IF c.t = "date" THEN c
  ELSE IF c.t = "str" /\ c.form \in {"iso", "ymd_slash"} THEN Date(c.v)
  ELSE IF c.t = "num" THEN Date(0)
  ELSE NaT

\* pd.to_datetime(series, errors="coerce")
to_datetime(cells) == [i \in 1..Len(cells) |-> ToDatetimeCell(cells[i])]

AsDatetime(col) == [col EXCEPT !.dtype = "datetime64", !.cells = to_datetime(col.cells)]

\* coerce_date_column, on the column it names
coerce_date_column(col) == AsDatetime(col)

\* The column names of the sheets, and str.lower() of each.  "nalja" stands
\* for the Korean column name that is the word for date, the second of the
\* suffixes of line 22 and of the keywords of line 74.
Names == {"Date", "time", "memo", "amount", "nalja"}

Lower(name) == IF name = "Date" THEN "date" ELSE name

\* keyword in name, for the names above
Contains(name, keyword) ==
  <<name, keyword>> \in {<<"date", "date">>, <<"time", "time">>, <<"nalja", "nalja">>}

\* name.endswith(suffix), for the names above
EndsWith(name, suffix) == <<name, suffix>> \in {<<"nalja", "nalja">>}

\* The test of _prepare, line 22: "date" in the lowered name, or one of the
\* Korean suffixes at its end.
PrepareDateName(name) == Contains(Lower(name), "date") \/ EndsWith(name, "nalja")

\* The test of _apply_time_filter, lines 74-76: one of the keywords in the
\* lowered name.
FilterDateName(name) ==
  \E keyword \in {"date", "nalja", "time"} : Contains(Lower(name), keyword)

MinNumericCount == 3
SampleSize == 20
HeadProbe == 10
MinProbeDates == 5

MaxOf(a, b) == IF a >= b THEN a ELSE b

\* A variant that computes the share over the cells that are not missing.
NumericEnoughNonMissing(maybe_numeric, cells) ==
  /\ NotNaCount(maybe_numeric) >= MinNumericCount
  /\ 2 * NotNaCount(maybe_numeric) >= NotNaCount(cells)

\* The test of line 28; int(0.5 * len) is len \div 2.
NumericEnough(maybe_numeric, cells) ==
  NotNaCount(maybe_numeric) >= MaxOf(MinNumericCount, Len(maybe_numeric) \div 2)

\* _prepare, first loop (lines 21-29), on one column
PrepareFirst(col) ==
  IF PrepareDateName(col.name) THEN coerce_date_column(col)
  ELSE IF col.dtype = "object"
    THEN LET maybe_numeric == safe_number(col.cells)
         IN  IF NumericEnough(maybe_numeric, col.cells)
               THEN [col EXCEPT !.dtype = "float64", !.cells = maybe_numeric]
               ELSE col
  ELSE col

\* The patterns of lines 39-44 match the text of a cell of these shapes.
DateLike(c) == c.t = "str" /\ c.form \in {"iso"}

\* _prepare, second loop (lines 32-57), on one column
PrepareSecond(col) ==
  IF col.dtype = "object"
    THEN LET sample_values == SeriesHead(SelectSeq(col.cells, NotNa), SampleSize)
             date_like_count == Len(SelectSeq(sample_values, DateLike))
         IN  IF Len(sample_values) > 0 /\ 10 * date_like_count >= 7 * Len(sample_values)
               THEN AsDatetime(col)
               ELSE col
  ELSE col

\* _prepare: the first loop over every column, then the second
_prepare(frame) ==
  LET first == [k \in 1..Len(frame.cols) |-> PrepareFirst(frame.cols[k])]
  IN  [frame EXCEPT !.cols = [k \in 1..Len(first) |-> PrepareSecond(first[k])]]

IsDatetime(col) == col.dtype = "datetime64"

\* next(...) over the columns, or the first pass of a loop over them that
\* breaks: the first of the positions hits, 0 when there is none
FirstColumn(hits) ==
  IF hits = {} THEN 0 ELSE CHOOSE k \in hits : \A j \in hits : k <= j

\* The positions of the datetime columns of a frame
DatetimeColumns(frame) == {k \in 1..Len(frame.cols) : IsDatetime(frame.cols[k])}

\* Strategy 2, the test of lines 76-82 on one column
NameHintAccepts(col) ==
  /\ FilterDateName(col.name)
  /\ 2 * NotNaCount(to_datetime(col.cells)) > Len(col.cells)

\* A variant that probes the first cells that are not missing.
ProbeAcceptsNonMissing(col) ==
  NotNaCount(to_datetime(SeriesHead(SelectSeq(col.cells, NotNa), HeadProbe))) >= MinProbeDates

\* Strategy 3, the test of lines 94-95 on one column
ProbeAccepts(col) ==
  NotNaCount(to_datetime(SeriesHead(col.cells, HeadProbe))) >= MinProbeDates

WithDatetime(frame, k) == [frame EXCEPT !.cols[k] = AsDatetime(@)]

\* A variant that tries the content probe before the name hints.
FindDateColumnProbeFirst(frame) ==
  LET s1 == FirstColumn(DatetimeColumns(frame))
      s2 == FirstColumn({k \in 1..Len(frame.cols) : NameHintAccepts(frame.cols[k])})
      s3 == FirstColumn({k \in 1..Len(frame.cols) : ProbeAccepts(frame.cols[k])})
  IN  IF s1 # 0 THEN [col |-> s1, strategy |-> "typed", df |-> frame]
      ELSE IF s3 # 0 THEN [col |-> s3, strategy |-> "content", df |-> WithDatetime(frame, s3)]
      ELSE IF s2 # 0 THEN [col |-> s2, strategy |-> "name", df |-> WithDatetime(frame, s2)]
      ELSE [col |-> 0, strategy |-> "none", df |-> frame]

\* _apply_time_filter, lines 66-100: the date column and the frame as the
\* search leaves it (the accepted column is written back converted)
FindDateColumn(frame) ==
  LET s1 == FirstColumn(DatetimeColumns(frame))
      s2 == FirstColumn({k \in 1..Len(frame.cols) : NameHintAccepts(frame.cols[k])})
      s3 == FirstColumn({k \in 1..Len(frame.cols) : ProbeAccepts(frame.cols[k])})
  IN  IF s1 # 0 THEN [col |-> s1, strategy |-> "typed", df |-> frame]
      ELSE IF s2 # 0 THEN [col |-> s2, strategy |-> "name", df |-> WithDatetime(frame, s2)]
      ELSE IF s3 # 0 THEN [col |-> s3, strategy |-> "content", df |-> WithDatetime(frame, s3)]
      ELSE [col |-> 0, strategy |-> "none", df |-> frame]

\* The labels of make_filter_section: "3m" is the label for the last 3
\* months, ..., "all" the label for all data.
TimeFilters == {"3m", "6m", "9m", "12m", "18m", "24m", "all"}

\* Series.max() of a datetime column: NaT when every cell is missing
SeriesMax(cells) ==
  LET days == {cells[i].v : i \in {j \in 1..Len(cells) : NotNa(cells[j])}}
  IN  IF days = {} THEN NaT ELSE Date(CHOOSE d \in days : \A e \in days : d >= e)

\* timestamp - pd.Timedelta(days=n)
MinusDays(ts, n) == IF ts.t = "nat" THEN NaT ELSE Date(ts.v - n)

\* A variant whose comparison is strict.
AtOrAfterStrict(c, cutoff) == NotNa(c) /\ NotNa(cutoff) /\ c.v > cutoff.v

\* cell >= cutoff_date: False when either side is NaT
AtOrAfter(c, cutoff) == NotNa(c) /\ NotNa(cutoff) /\ c.v >= cutoff.v

\* frame[mask]: the rows at the positions kept, in order
TakeRows(frame, mask) ==
  LET Keep(i) == i \in mask
      rows == SelectSeq([i \in 1..Len(frame.index) |-> i], Keep)
  IN  [index |-> [r \in 1..Len(rows) |-> frame.index[rows[r]]],
       cols |-> [k \in 1..Len(frame.cols) |->
                  [frame.cols[k] EXCEPT !.cells = [r \in 1..Len(rows) |-> @[rows[r]]]]]]

\* lines 111-122: the days of a label (0 for one that has none)
CutoffDays(label) ==
  CASE label = "3m" -> 90
    [] label = "6m" -> 180
    [] label = "9m" -> 270
    [] label = "12m" -> 365
    [] label = "18m" -> 540
    [] label = "24m" -> 730
    [] OTHER -> 0

\* A variant that drops the rows without a date before returning all data.
AllDataDropMissing(f) ==
  TakeRows(f.df, {i \in 1..Len(f.df.index) : NotNa(f.df.cols[f.col].cells[i])})

\* line 110: "return df" for the label of all data
AllData(f) == f.df

\* Whether the value returned is df itself (lines 104, 110, 124) and not
\* the new frame df[mask] of line 127
ReturnsDf(col, label) == col = 0 \/ label = "all" \/ CutoffDays(label) = 0

\* _apply_time_filter: the frame returned, whether it is the argument
\* itself, the argument as the call leaves it, and the date column found
_apply_time_filter(frame, label) ==
  LET f == FindDateColumn(frame)
      latest_date == SeriesMax(f.df.cols[f.col].cells)
      cutoff_date == MinusDays(latest_date, CutoffDays(label))
      mask == {i \in 1..Len(f.df.index) :
                 AtOrAfter(f.df.cols[f.col].cells[i], cutoff_date)}
  IN  [df |-> f.df,
       found |-> [col |-> f.col, strategy |-> f.strategy],
       same |-> ReturnsDf(f.col, label),
       ret |-> IF f.col = 0 THEN f.df
               ELSE IF label = "all" THEN AllData(f)
               ELSE IF CutoffDays(label) # 0 THEN TakeRows(f.df, mask)
               ELSE f.df]

\* A variant that falls back to the last column.
AxisColumnLast(frame) ==
  LET k == FirstColumn(DatetimeColumns(frame)) IN IF k # 0 THEN k ELSE Len(frame.cols)

\* main, line 207
AxisColumn(frame) ==
  LET k == FirstColumn(DatetimeColumns(frame)) IN IF k # 0 THEN k ELSE 1

(***************************************************************************)
(* The sheets a run is given                                               *)
(***************************************************************************)

\* Rows of a one-column sheet of amounts.
MaxAmountRows == 8
\* Rows of a sheet with up to two columns.
MaxRows == 5
\* Rows of a one-column sheet of dates spread over the windows.
MaxDatedRows == 3

\* Rows of a one-column sheet longer than the probe of strategy 3.
MaxProbeRows == 11

\* 2024-01-31 and days before it, near the edge of every window.
WindowDates == {19753 - back : back \in {0, 1, 91, 181, 271, 366, 541, 731}}

Column(name, dtype, cells) == [name |-> name, dtype |-> dtype, cells |-> cells]

Frame(cols) == [index |-> [i \in 1..Len(cols[1].cells) |-> i], cols |-> cols]

AmountCells == {NaN, Str("money", 1234), Str("word", 0)}

\* One column of amounts.
AmountSheet ==
  \E n \in 1..MaxAmountRows : \E cells \in [1..n -> AmountCells] :
    sheet = Frame(<<Column("amount", "object", cells)>>)

VariedColumns(n) ==
  UNION {{Column(name, "object", cells) :
            name \in {"Date", "time", "memo"},
            cells \in [1..n -> {NaN, Str("word", 0), Str(form, 19753)}]} :
         form \in {"iso", "ymd_slash"}}

\* Columns named "amount": numbers, dates written with slashes, words.
BackgroundColumns(n) ==
  {Column("amount", "float64", [i \in 1..n |-> Num(1000 * i)]),
   Column("amount", "object", [i \in 1..n |-> Str("ymd_slash", 19752)]),
   Column("amount", "object", [i \in 1..n |-> Str("word", 0)])}

\* A column of dates, words and blanks, alone or beside a column "amount".
MixedSheet ==
  \E n \in 1..MaxRows : \E v \in VariedColumns(n) :
    \/ sheet = Frame(<<v>>)
    \/ \E b \in BackgroundColumns(n) : sheet = Frame(<<b, v>>) \/ sheet = Frame(<<v, b>>)

\* One column of dates spread over the windows, and blanks.
DatedSheet ==
  \E n \in 1..MaxDatedRows :
    \/ \E cells \in [1..n -> {NaN} \cup {Str("iso", d) : d \in WindowDates}] :
         sheet = Frame(<<Column("Date", "object", cells)>>)
    \/ \E cells \in [1..n -> {NaN} \cup {Str("ymd_slash", d) : d \in WindowDates}] :
         sheet = Frame(<<Column("time", "object", cells)>>)

\* One column "memo" of at least as many rows as the probe reads: blanks,
\* then dates written with slashes, then words.
ProbeSheet ==
  \E n \in HeadProbe..MaxProbeRows : \E blanks \in 0..n : \E dates \in 0..(n - blanks) :
    sheet = Frame(<<Column("memo", "object",
                     [i \in 1..n |-> IF i <= blanks THEN NaN
                                     ELSE IF i <= blanks + dates THEN Str("ymd_slash", 19753)
                                     ELSE Str("word", 0)])>>)

\* One column with a date or time keyword in its name: amounts, dates and
\* blanks.
HintedSheet ==
  \E n \in 1..MaxRows : \E name \in {"Date", "time", "nalja"} :
    \E cells \in [1..n -> {NaN, Str("money", 1234), Str("iso", 19753)}] :
      sheet = Frame(<<Column(name, "object", cells)>>)

\* main, line 147: the sheet is loaded (and is not empty, line 159)
InitTable ==
  /\ pc = "loaded"
  /\ (AmountSheet \/ MixedSheet \/ DatedSheet \/ ProbeSheet \/ HintedSheet)
  /\ df = sheet
  /\ time_filter = "all"
  /\ found = [col |-> 0, strategy |-> "pending"]
  /\ df_filtered = EmptyFrame
  /\ ret_is_df = FALSE
  /\ date_col = 0
  /\ AddrIdle
  /\ series = <<>>
  /\ mom = [ret |-> <<<<>>, "">>, locals |-> <<>>]

\* main, line 148
Prepare ==
  /\ pc = "loaded"
  /\ df' = _prepare(df)
  /\ pc' = "prepared"
  /\ UNCHANGED <<sheet, time_filter, found, df_filtered, ret_is_df, date_col, addr_vars, delta_vars>>

\* main, lines 144 and 164-207: the label chosen, the frame filtered, the
\* chart axis picked
ApplyTimeFilter ==
  /\ pc = "prepared"
  /\ \E label \in TimeFilters :
       LET r == _apply_time_filter(df, label)
       IN  /\ time_filter' = label
           /\ df' = r.df
           /\ found' = r.found
           /\ df_filtered' = r.ret
           /\ ret_is_df' = r.same
           /\ date_col' = AxisColumn(r.ret)
  /\ pc' = "filtered"
  /\ UNCHANGED <<sheet, addr_vars, delta_vars>>

NextTable == Prepare \/ ApplyTimeFilter

SpecTable == InitTable /\ [][NextTable]_vars

(***************************************************************************)
(* The month-over-month change of a series: get_mom_change                 *)
(***************************************************************************)

\* Longest series a change is computed of.
MaxSeriesLen == 3

Billion == 1000000000
Million == 1000000
Thousand == 1000

\* The amounts of a series are float64 values, exact on every whole number
\* met here.  They are counted in steps of Unit: every amount below and every
\* tier is a whole number of steps, and a cell Num(v) of a series holds the
\* amount v * Unit.
Unit == 50

\* the amount x, a multiple of Unit, in steps
Won(x) == x \div Unit

\* tenths of a thousand, of a million, of a billion, in steps
Thousands(tenths) == tenths * (Thousand \div (10 * Unit))
Millions(tenths) == tenths * (Million \div (10 * Unit))
Billions(tenths) == tenths * (Billion \div (10 * Unit))

\* A series is what safe_number returns: numbers and NaN.
SeriesCells == {NaN} \cup {Num(Won(v)) : v \in {-100, 0, 100, 150, 1100}}

\* The amounts on both sides of every tier.
TierAmounts ==
  {Won(950), Thousands(10), Thousands(9999), Millions(10), Millions(9999),
   Billions(10), Billions(15), Billions(20)}

\* Series that rise from 0 or fall from 0 by an amount near a tier, and
\* series that come back to 0 from an amount of at most a billion.
StepSeries ==
  {<<Num(0), Num(a)>> : a \in TierAmounts} \cup
  {<<Num(0), Num(-a)>> : a \in TierAmounts} \cup
  {<<Num(a), Num(0)>> : a \in {b \in TierAmounts : b <= Billions(10)}} \cup
  {<<Num(-a), Num(0)>> : a \in {b \in TierAmounts : b <= Billions(10)}}

\* Series of amounts of billions, half a billion apart.
LargeCells == {NaN} \cup {Num(Billions(t)) : t \in {20, 25}}

SeriesInput ==
  \/ \E n \in 0..MaxSeriesLen : series \in [1..n -> SeriesCells]
  \/ series \in StepSeries
  \/ series \in [1..2 -> LargeCells]

\* A variant that keeps the missing entries.
dropna_none(cells) == cells

\* Series.dropna()
dropna(cells) == SelectSeq(cells, NotNa)

Abs(x) == IF x < 0 THEN -x ELSE x

\* num/den (den > 0) rounded to an integer, a tie going to the even one: the
\* rounding of a float64 to the digits printed, where the quotient is exact
\* in binary or is no tie, as it is for every series above.
RoundHalfEven(num, den) ==
  LET q == num \div den
      r == num % den
  IN  IF 2 * r < den THEN q
      ELSE IF 2 * r > den THEN q + 1
      ELSE IF q % 2 = 0 THEN q ELSE q + 1

\* f"{change/tier:+.1f}{suffix}": the sign, the digits before and after the
\* point, the suffix (change in steps, tier a multiple of 10 * Unit)
FormatOneDecimal(change, tier, suffix) ==
  LET tenths == RoundHalfEven(change, tier \div (10 * Unit))
  IN  [sign |-> IF change < 0 THEN "-" ELSE "+",
       digits |-> <<Abs(tenths) \div 10, Abs(tenths) % 10>>,
       suffix |-> suffix]

\* f"{change:+.0f}"
FormatWhole(change) ==
  [sign |-> IF change < 0 THEN "-" ELSE "+", digits |-> <<Abs(change) * Unit>>, suffix |-> ""]

\* A variant that picks the tier by the signed change.
ChangeStrSigned(change) ==
  IF change >= Billion \div Unit THEN FormatOneDecimal(change, Billion, "B")
  ELSE IF change >= Million \div Unit THEN FormatOneDecimal(change, Million, "M")
  ELSE IF change >= Thousand \div Unit THEN FormatOneDecimal(change, Thousand, "K")
  ELSE FormatWhole(change)

\* A variant whose billions tier starts at half a billion.
ChangeStrFromHalfBillion(change) ==
  IF 2 * Abs(change) >= Billion \div Unit THEN FormatOneDecimal(change, Billion, "B")
  ELSE IF Abs(change) >= Million \div Unit THEN FormatOneDecimal(change, Million, "M")
  ELSE IF Abs(change) >= Thousand \div Unit THEN FormatOneDecimal(change, Thousand, "K")
  ELSE FormatWhole(change)

\* lines 181-188
ChangeStr(change) ==
  IF Abs(change) >= Billion \div Unit THEN FormatOneDecimal(change, Billion, "B")
  ELSE IF Abs(change) >= Million \div Unit THEN FormatOneDecimal(change, Million, "M")
  ELSE IF Abs(change) >= Thousand \div Unit THEN FormatOneDecimal(change, Thousand, "K")
  ELSE FormatWhole(change)

RECURSIVE GCD(_, _)
GCD(a, b) == IF b = 0 THEN a ELSE GCD(b, a % b)

\* the float quotient num/den (den # 0): its value in lowest terms with
\* den > 0, and its sign bit, which a zero keeps (0.0 / -100.0 is -0.0)
Ratio(num, den) ==
  LET g == GCD(Abs(num), Abs(den))
      s == IF den < 0 THEN -1 ELSE 1
  IN  [num |-> s * (num \div g), den |-> s * (den \div g), neg |-> (num < 0) # (den < 0)]

\* f"{change_pct:+.1f}%": the sign printed is the sign bit
PctStr(change_pct) ==
  LET tenths == RoundHalfEven(change_pct.num * 10, change_pct.den)
  IN  [sign |-> IF change_pct.neg THEN "-" ELSE "+",
       digits |-> <<Abs(tenths) \div 10, Abs(tenths) % 10>>,
       suffix |-> "%"]

\* get_mom_change: the pair returned (the label, as its pieces, and the
\* colour) and the locals assigned on the way
get_mom_change(s) ==
  LET valid == dropna(s)
  IN  IF Len(valid) < 2 THEN [ret |-> <<<<"0">>, "gray">>, locals |-> <<>>]
      ELSE
        LET current == valid[Len(valid)].v
            previous == valid[Len(valid) - 1].v
            change == current - previous
            change_pct == IF previous # 0 THEN Ratio(change * 100, previous) ELSE Ratio(0, 1)
            color == IF change > 0 THEN "green" ELSE IF change < 0 THEN "red" ELSE "gray"
        IN  [ret |-> <<<<"[", ChangeStr(change), " ", PctStr(change_pct), "]">>, color>>,
             locals |-> [current |-> current, previous |-> previous,
                         change |-> change, change_pct |-> change_pct]]

InitDelta ==
  /\ pc = "delta_start"
  /\ SeriesInput
  /\ mom = [ret |-> <<<<>>, "">>, locals |-> <<>>]
  /\ AddrIdle
  /\ TableIdle

\* main, line 221 and the like: mom_change, change_color = get_mom_change(series)
CallGetMomChange ==
  /\ pc = "delta_start"
  /\ mom' = get_mom_change(series)
  /\ pc' = "delta_done"
  /\ UNCHANGED <<series, addr_vars, table_vars>>

NextDelta == CallGetMomChange

SpecDelta == InitDelta /\ [][NextDelta]_vars

(***************************************************************************)
(* Claims about column addressing                                          *)
(***************************************************************************)

IsAsciiLetter(ch) == (ch >= 65 /\ ch <= 90) \/ (ch >= 97 /\ ch <= 122)

\* l is one or two letters, in any case, inside any amount of whitespace.
IsPaddedLetters(l) ==
  \E i, j \in 1..Len(l) :
    /\ i <= j /\ j - i < 2
    /\ \A k \in 1..Len(l) :
         IF k >= i /\ k <= j THEN IsAsciiLetter(l[k]) ELSE l[k] \in {32, 9}

\* The letters of l, upper-cased.
LettersOf(l) ==
  LET ls == SelectSeq(l, IsAsciiLetter)
  IN  [k \in 1..Len(ls) |-> IF ls[k] >= 97 THEN ls[k] - 32 ELSE ls[k]]

\* The bijective base-26 value of a string of upper-case letters (A=1..Z=26).
RECURSIVE Bijective26(_)
Bijective26(s) ==
  IF s = <<>> THEN 0
  ELSE 26 * Bijective26(SubSeq(s, 1, Len(s) - 1)) + (s[Len(s)] - 64)

\* The inverse of the addressing: the letters of a 0-based column index.
RECURSIVE indexToLetter(_)
indexToLetter(i) ==
  IF i < 26 THEN <<65 + i>>
  ELSE indexToLetter((i \div 26) - 1) \o <<65 + (i % 26)>>

\* C1: for every string of one or two letters A..Z, in any case and inside
\* any whitespace, column_index_from_letter returns the bijective base-26
\* value of the letters minus one, an index in 0..701 from which
\* indexToLetter recovers the letters (so distinct letter strings get
\* distinct indices); A -> 0, Z -> 25, AA -> 26, AM -> 38.
C1_LetterToIndex ==
  (pc = "addr_indexed" /\ IsPaddedLetters(letter)) =>
    /\ index_ret.exc = "none"
    /\ index_ret.value = Bijective26(LettersOf(letter)) - 1
    /\ index_ret.value \in 0..701
    /\ indexToLetter(index_ret.value) = LettersOf(letter)
    /\ (LettersOf(letter) = <<65>> => index_ret.value = 0)
    /\ (LettersOf(letter) = <<90>> => index_ret.value = 25)
    /\ (LettersOf(letter) = <<65, 65>> => index_ret.value = 26)
    /\ (LettersOf(letter) = <<65, 77>> => index_ret.value = 38)

\* " am " has been converted, to 38.
C1_Witness ==
  /\ pc = "addr_indexed"
  /\ letter = <<32, 97, 109, 32>>
  /\ index_ret = Returned(38)

\* C2: column_index_from_letter raises ValueError, and returns no index,
\* whenever the trimmed and upper-cased argument holds a character outside
\* A-Z, and also whenever the trimmed argument is empty.
C2_InvalidAddress ==
  LET s == Upper(Strip(letter))
  IN  (pc = "addr_indexed" /\ (s = <<>> \/ \E k \in 1..Len(s) : s[k] < 65 \/ s[k] > 90))
        => index_ret.exc = "ValueError"

(***************************************************************************)
(* Claims about _prepare and _apply_time_filter                            *)
(***************************************************************************)

\* Names that hold a date or time keyword.
DateIndicating(name) == name \in {"Date", "time", "nalja"}

ParsesAsNumber(c) == c.t = "str" /\ c.form = "money"

ParsesAsDate(c) == c.t = "date" \/ (c.t = "str" /\ c.form \in {"iso", "ymd_slash"})

\* pd.to_datetime gives a date for the cell: a date, a text that parses,
\* or a number (read as a time since 1970-01-01).
CoercesToDate(c) == ParsesAsDate(c) \/ c.t = "num"

Parsed(cells) == Cardinality({i \in 1..Len(cells) : ParsesAsNumber(cells[i])})

NonMissing(cells) == Cardinality({i \in 1..Len(cells) : cells[i].t # "nan"})

TextColumns ==
  {k \in 1..Len(sheet.cols) :
     sheet.cols[k].dtype = "object" /\ ~DateIndicating(sheet.cols[k].name)}

\* C3 as stated: a text column without a date-indicating name becomes
\* Numeric exactly when at least half of its non-missing cells parse as
\* numbers and at least 3 cells parse.
C3_RatioOverNonMissing ==
  pc = "prepared" =>
    \A k \in TextColumns :
      LET cells == sheet.cols[k].cells
      IN  df.cols[k].dtype = "float64"
            <=> (2 * Parsed(cells) >= NonMissing(cells) /\ Parsed(cells) >= 3)

\* C3, amended: a text column without a date-indicating name becomes
\* Numeric exactly when the number of its cells that parse as numbers is at
\* least max(3, floor(half the number of all its cells)), blank cells
\* counted among all its cells; with fewer than 3 parsed cells it never is.
C3_CountOverAllCells ==
  pc = "prepared" =>
    \A k \in TextColumns :
      LET cells == sheet.cols[k].cells
      IN  /\ df.cols[k].dtype = "float64"
               <=> (Parsed(cells) >= 3 /\ Parsed(cells) >= Len(cells) \div 2)
          /\ (Parsed(cells) < 3 => df.cols[k].dtype # "float64")
          /\ (df.cols[k].dtype = "float64" =>
                df.cols[k].cells = [i \in 1..Len(cells) |->
                   IF ParsesAsNumber(cells[i]) THEN Num(cells[i].v) ELSE NaN])

\* 8 cells, 3 that parse and 5 blank: all the non-missing cells parse, and
\* the column stays text.
C3_Witness ==
  /\ pc = "prepared"
  /\ Len(sheet.cols) = 1
  /\ sheet.cols[1].name = "amount"
  /\ Len(sheet.cols[1].cells) = 8
  /\ Parsed(sheet.cols[1].cells) = 3
  /\ NonMissing(sheet.cols[1].cells) = 3
  /\ df.cols[1].dtype = "object"

WindowLength ==
  ("3m" :> 90) @@ ("6m" :> 180) @@ ("9m" :> 270) @@ ("12m" :> 365)
    @@ ("18m" :> 540) @@ ("24m" :> 730)

DatedRows(cells) == {i \in 1..Len(cells) : cells[i].t = "date"}

LatestDay(cells) ==
  CHOOSE d \in {cells[i].v : i \in DatedRows(cells)} :
    \A i \in DatedRows(cells) : d >= cells[i].v

\* The rows of frame at the positions in keep, in their order.
RowsOf(frame, keep) ==
  LET In(i) == i \in keep
      rows == SelectSeq([i \in 1..Len(frame.index) |-> i], In)
  IN  [index |-> [r \in 1..Len(rows) |-> frame.index[rows[r]]],
       cols |-> [k \in 1..Len(frame.cols) |->
                  [name |-> frame.cols[k].name,
                   dtype |-> frame.cols[k].dtype,
                   cells |-> [r \in 1..Len(rows) |-> frame.cols[k].cells[rows[r]]]]]]

\* C4: under a bounded window, when the date column found has a date, the
\* frame returned holds exactly the rows whose date is on or after the
\* latest date minus the days of the window, in their original order, and
\* no row whose date is missing.
C4_WindowSelection ==
  (/\ pc = "filtered"
   /\ time_filter \in DOMAIN WindowLength
   /\ found.col # 0
   /\ DatedRows(df.cols[found.col].cells) # {}) =>
    LET dates == df.cols[found.col].cells
        keep == {i \in DatedRows(dates) :
                   dates[i].v >= LatestDay(dates) - WindowLength[time_filter]}
    IN  /\ df_filtered = RowsOf(df, keep)
        /\ \A r \in 1..Len(df_filtered.index) :
             df_filtered.cols[found.col].cells[r].t = "date"

\* Rows dated 365 days before the latest, missing, and the latest: the
\* 12-month window keeps the first and the third.
C4_Witness ==
  /\ pc = "filtered"
  /\ time_filter = "12m"
  /\ found.col = 1
  /\ df.cols[1].cells = <<Date(19387), NaT, Date(19752)>>
  /\ df_filtered.index = <<1, 3>>

C6_AllMissingKeepsRows ==
  (/\ pc = "filtered"
   /\ time_filter \in DOMAIN WindowLength
   /\ found.col # 0
   /\ DatedRows(df.cols[found.col].cells) = {}) =>
    /\ df_filtered = df
    /\ Len(df_filtered.index) = Len(sheet.index)

FirstOf(S) == CHOOSE k \in S : \A j \in S : k <= j

C8_NoDateColumn ==
  (pc = "filtered" /\ found.strategy = "none") =>
    /\ found.col = 0
    /\ df_filtered = df
    /\ df_filtered.index = sheet.index
    /\ date_col = 1

\* Two columns of words, the last 3 months asked for: no date column.
C8_Witness ==
  /\ pc = "filtered"
  /\ found.strategy = "none"
  /\ time_filter = "3m"
  /\ Len(df.cols) = 2
  /\ Len(df_filtered.index) = 5
  /\ date_col = 1

Coerced(c) ==
  IF ParsesAsDate(c) THEN Date(c.v) ELSE IF c.t = "num" THEN Date(0) ELSE NaT

\* The columns before the call that are typed as dates, and those the name
\* hint accepts.
TypedBefore == {k \in 1..Len(df.cols) : df.cols[k].dtype = "datetime64"}

HintedBefore ==
  {k \in 1..Len(df.cols) :
     /\ DateIndicating(df.cols[k].name)
     /\ 2 * Cardinality({i \in 1..Len(df.index) : CoercesToDate(df.cols[k].cells[i])})
          > Len(df.index)}

\* The first n entries of a sequence.
FirstN(cells, n) == [i \in 1..(IF Len(cells) < n THEN Len(cells) ELSE n) |-> cells[i]]

DatesAmong(cells) == Cardinality({i \in 1..Len(cells) : CoercesToDate(cells[i])})

\* What the content probe leaves when it is reached and accepts the columns
\* probe: the first of them is found and is converted as a whole, the other
\* columns are untouched; nothing is found or changed when probe is empty.
ProbeOutcome(probe) ==
  IF probe = {} THEN found'.strategy = "none" /\ df' = df
  ELSE LET k == FirstOf(probe)
       IN  /\ found' = [col |-> k, strategy |-> "content"]
           /\ df'.cols[k].dtype = "datetime64"
           /\ \A i \in 1..Len(df.index) : df'.cols[k].cells[i] = Coerced(df.cols[k].cells[i])
           /\ \A j \in 1..Len(df.cols) : j # k => df'.cols[j] = df.cols[j]

\* C13 as stated: the content probe reads the first 10 cells of a column
\* that are not missing, leading blanks skipped and not counted in the 10;
\* the first column with at least 5 of them parsing is found and converted
\* as a whole.
C13_ProbeSkipsBlanks ==
  [][(pc = "prepared" /\ pc' = "filtered" /\ TypedBefore = {} /\ HintedBefore = {}) =>
       LET Present(c) == c.t # "nan"
           Sample(k) == FirstN(SelectSeq(df.cols[k].cells, Present), 10)
       IN  ProbeOutcome({k \in 1..Len(df.cols) : DatesAmong(Sample(k)) >= 5})]_vars

\* C13, amended: the content probe reads the first 10 cells of a column,
\* blank cells among them, so that leading blanks use up the sample; the
\* first column, in the order of the sheet, with at least 5 of those cells
\* parsing is found and converted as a whole.
C13_ProbeCountsBlanks ==
  [][(pc = "prepared" /\ pc' = "filtered" /\ TypedBefore = {} /\ HintedBefore = {}) =>
       LET Sample(k) == FirstN(df.cols[k].cells, 10)
       IN  ProbeOutcome({k \in 1..Len(df.cols) : DatesAmong(Sample(k)) >= 5})]_vars

\* Six blanks, then five dates in rows 7 to 11: four dates among the first
\* ten cells, no date column is found.
C13_Witness ==
  /\ pc = "filtered"
  /\ Len(sheet.index) = 11
  /\ \A i \in 1..6 : sheet.cols[1].cells[i] = NaN
  /\ \A i \in 7..11 : sheet.cols[1].cells[i] = Str("ymd_slash", 19753)
  /\ found = [col |-> 0, strategy |-> "none"]
  /\ df.cols[1].dtype = "object"

\* The columns of the sheet with a date or time keyword in their name.
HintedColumns == {k \in 1..Len(sheet.cols) : DateIndicating(sheet.cols[k].name)}

\* C14: a column with a date or time keyword in its name is made Date by
\* schema inference exactly when at least one of its cells parses as a
\* date, whatever the numeric thresholds say: it is never made Numeric, and
\* it is not made Date when no cell parses.
C14_HintedDateIffAnyParses ==
  pc = "prepared" =>
    \A k \in HintedColumns :
      LET cells == sheet.cols[k].cells
          parses == \E i \in 1..Len(cells) : ParsesAsDate(cells[i])
      IN  /\ df.cols[k].dtype = "datetime64" <=> parses
          /\ df.cols[k].dtype # "float64"

\* C15: a call of the filter leaves every cell of the frame passed in as
\* it was and returns a frame that is not the frame passed in nor shares
\* its cells, so that the same frame filtered again, with any label, gives
\* what it would have given before the call.
C15_CopyOnFilter ==
  [][(pc = "prepared" /\ pc' = "filtered") =>
       /\ df' = df
       /\ ~ret_is_df'
       /\ \A w2 \in TimeFilters :
            _apply_time_filter(df', w2).ret = _apply_time_filter(df, w2).ret]_vars

(***************************************************************************)
(* Claims about get_mom_change                                             *)
(***************************************************************************)

\* The values of a series that are not missing, in order.
ValuesOf(s) ==
  LET Present(c) == c.t = "num"
      kept == SelectSeq(s, Present)
  IN  [i \in 1..Len(kept) |-> kept[i].v]

\* C9: of a series with at least two values that are not missing, the
\* change is the last such value minus the one before it, the percent
\* change is the change over that previous value times 100, or 0 when the
\* previous value is 0, and the colour is green for a change above 0, red
\* below 0, gray at 0; [100, 150] gives 50, 50.0 and green.
C9_PeriodDelta ==
  (pc = "delta_done" /\ Len(ValuesOf(series)) >= 2) =>
    LET vals == ValuesOf(series)
        latest == vals[Len(vals)]
        previous == vals[Len(vals) - 1]
        l == mom.locals
    IN  /\ l.change = latest - previous
        /\ l.change_pct.den > 0
        /\ IF previous = 0 THEN l.change_pct.num = 0
           ELSE l.change_pct.num * previous = (latest - previous) * 100 * l.change_pct.den
        /\ mom.ret[2] = (IF latest > previous THEN "green"
                         ELSE IF latest < previous THEN "red" ELSE "gray")
        /\ (vals = <<Won(100), Won(150)>> =>
              /\ l.change = Won(50)
              /\ l.change_pct.num = 50 * l.change_pct.den
              /\ mom.ret[2] = "green")

\* [100, missing, 150]: the missing entry is skipped, the change is 50.
C9_Witness ==
  /\ pc = "delta_done"
  /\ series = <<Num(Won(100)), NaN, Num(Won(150))>>
  /\ mom.locals.change = Won(50)
  /\ mom.locals.change_pct = [num |-> 50, den |-> 1, neg |-> FALSE]
  /\ mom.ret[2] = "green"

\* C10: of a series with fewer than two values that are not missing, the
\* label returned is "0" alone, showing no change and no percent, and the
\* colour is gray.
C10_TooShort ==
  (pc = "delta_done" /\ Len(ValuesOf(series)) < 2) =>
    /\ mom.ret = <<<<"0">>, "gray">>
    /\ DOMAIN mom.locals = {}

\* [missing, 150] holds one value.
C10_Witness ==
  /\ pc = "delta_done"
  /\ series = <<NaN, Num(Won(150))>>
  /\ mom.ret = <<<<"0">>, "gray">>

\* The piece of the label that holds the change.
MagnitudeString == mom.ret[1][2]

\* d tenths of the tier is the size, to the nearest tenth.
NearestTenths(d, size, tier) ==
  LET tenth == tier \div (10 * Unit)
      off == d * tenth - size
  IN  2 * Abs(off) <= tenth

\* C11: the magnitude string of a change is its size behind a sign that is
\* always written ("-" below 0, "+" otherwise), in the tier of the size: from
\* 1e9 the size over 1e9 to one decimal with suffix B, else from 1e6 over 1e6
\* with M, else from 1e3 over 1e3 with K, else the whole number and no
\* suffix, so that a change of 50 is "+50"; a negative change takes the tier
\* of the positive change of its size.
C11_MagnitudeString ==
  (pc = "delta_done" /\ Len(ValuesOf(series)) >= 2) =>
    LET vals == ValuesOf(series)
        change == vals[Len(vals)] - vals[Len(vals) - 1]
        size == Abs(change)
        m == MagnitudeString
        Scaled(tier, suffix) ==
          /\ m.suffix = suffix
          /\ Len(m.digits) = 2
          /\ m.digits[2] \in 0..9
          /\ NearestTenths(10 * m.digits[1] + m.digits[2], size, tier)
    IN  /\ m.sign = (IF change < 0 THEN "-" ELSE "+")
        /\ IF size >= Won(Billion) THEN Scaled(Billion, "B")
           ELSE IF size >= Won(Million) THEN Scaled(Million, "M")
           ELSE IF size >= Won(Thousand) THEN Scaled(Thousand, "K")
           ELSE m.suffix = "" /\ m.digits = <<size * Unit>>
        /\ (change = Won(50) => m = [sign |-> "+", digits |-> <<50>>, suffix |-> ""])

\* A fall of one and a half billion is "-1.5B".
C11_Witness ==
  /\ pc = "delta_done"
  /\ series = <<Num(0), Num(-Billions(15))>>
  /\ MagnitudeString = [sign |-> "-", digits |-> <<1, 5>>, suffix |-> "B"]

\* The series [2000000000, 2500000000].
TwoToTwoAndAHalfBillion == <<Num(Billions(20)), Num(Billions(25))>>

\* C12 as stated: of the series [2000000000, 2500000000], a change of
\* 500000000, the magnitude string is "+0.5B".
C12_HalfBillionInBillions ==
  (pc = "delta_done" /\ series = TwoToTwoAndAHalfBillion) =>
    MagnitudeString = [sign |-> "+", digits |-> <<0, 5>>, suffix |-> "B"]

\* C12, amended: of the series [2000000000, 2500000000] the change of
\* 500000000 is below 1e9 and is written in millions, "+500.0M".
C12_HalfBillionInMillions ==
  (pc = "delta_done" /\ series = TwoToTwoAndAHalfBillion) =>
    /\ mom.locals.change = Millions(5000)
    /\ MagnitudeString = [sign |-> "+", digits |-> <<500, 0>>, suffix |-> "M"]

C12_Witness ==
  /\ pc = "delta_done"
  /\ series = TwoToTwoAndAHalfBillion
  /\ MagnitudeString.suffix = "M"
  /\ mom.ret[2] = "green"

====
